---------------------------- MODULE Spec2Model ----------------------------
(***************************************************************************)
(* Model of src/jwt-server.js: registration, authentication and the        *)
(* token-gated status / modify / delete routes over the "users"            *)
(* collection.                                                             *)
(*                                                                         *)
(* Granularity: a handler runs atomically between two awaits.  The steps   *)
(* of the model are the database operations the handlers await (findOne,   *)
(* save, findOneAndDelete) together with the synchronous code that follows *)
(* them up to the next await or the response.  register and modify await   *)
(* twice (findOne, then save), so they are two steps each and other        *)
(* requests may run in between; auth, status and delete await once.        *)
(*                                                                         *)
(* The empty string "" stands for a falsy request field (missing or        *)
(* empty): the handlers only test such fields for truthiness or hand them  *)
(* to the schema, whose `required` validator rejects both.                 *)
(***************************************************************************)
EXTENDS Naturals, FiniteSets, Sequences, Bags, TLC

\* ------------------------------------------------------------------ bounds
\* Number of documents ever inserted (each insert gets a fresh _id).
MaxId == 2
\* Number of register / modify requests suspended between their two awaits.
MaxPending == 2

\* ------------------------------------------------------------ value sets
\* The scenarios explored.  A run draws one of them at the start: the strings
\* its clients use in every request (besides the falsy "") and the number of
\* register / modify requests that may be suspended at once.
Pools ==
    {[names |-> {"alice", "bob"}, passwords |-> {"pw1"}, jobTitles |-> {}, pending |-> MaxPending],
     [names |-> {"alice"}, passwords |-> {"pw1", "pw2"}, jobTitles |-> {}, pending |-> MaxPending],
     [names |-> {"alice"}, passwords |-> {"pw1"}, jobTitles |-> {"dev"}, pending |-> MaxPending],
     [names |-> {"alice", "bob"}, passwords |-> {"pw1"}, jobTitles |-> {"dev"}, pending |-> 1]}

\* process.env.SECRET, and a key the service does not use.
secret == "SECRET"
otherKey == "attacker"

VARIABLES
    pool,         \* the scenario of this run (constant over a run)
    store,        \* the users collection: _id -> document, for the live documents
    nextId,       \* the next fresh _id
    registering,  \* bag of register requests suspended between findOne and save
    modifying,    \* bag of modify requests suspended between findOne and save
    issued,       \* tokens the service has handed to clients so far
    registered,   \* usernames for which a register request has reported success
    ev            \* the last step taken and the response it rendered, if any

vars == <<pool, store, nextId, registering, modifying, issued, registered, ev>>

\* --------------------------------------------------------------- tokens
NoToken == [form |-> "none", name |-> "", password |-> "", sig |-> <<"", "", "">>]
AbsentToken == [form |-> "absent", name |-> "", password |-> "", sig |-> <<"", "", "">>]
MalformedToken == [form |-> "malformed", name |-> "", password |-> "", sig |-> <<"", "", "">>]

\* The HMAC of a payload under a key: equal only for equal key and payload.
Sign(payload, key) == <<key, payload.name, payload.password>>

EncodeWith(payload, key) ==
    [form |-> "jwt", name |-> payload.name, password |-> payload.password,
     sig |-> Sign(payload, key)]

\* Faulty variant of encodeToken: the token is signed with another key.
encodeTokenOtherKey(payload) == EncodeWith(payload, otherKey)

encodeToken(payload) == EncodeWith(payload, secret)

\* Faulty variant of DecodeThrows: the signature is not verified.
DecodeNoVerify(token) == token.form # "jwt"

\* jwt.decode throws on a missing token, on a token that is not three
\* segments, and on a signature that does not verify under the secret.
DecodeThrows(token) ==
    \/ token.form # "jwt"
    \/ token.sig # Sign([name |-> token.name, password |-> token.password], secret)

decodeToken(token) == [name |-> token.name, password |-> token.password]

\* ----------------------------------------------------------- collection
\* User.findOne(filter): the live documents the filter matches.
FindByName(s, name) == {i \in DOMAIN s : s[i].name = name}

\* Of several matching documents findOne and findOneAndDelete return the
\* first in natural order: the collection is scanned in insertion order (no
\* index covers name or password), and _ids are handed out in that order.
FindOne(found) == CHOOSE i \in found : \A k \in found : i <= k

\* Faulty variant of FindByNameAndPassword: the filter leaves the password out.
FindIgnoringPassword(s, name, password) == {i \in DOMAIN s : s[i].name = name}

\* Faulty variant of FindByNameAndPassword: the filter leaves the name out.
FindByPasswordOnly(s, name, password) == {i \in DOMAIN s : s[i].password = password}

FindByNameAndPassword(s, name, password) ==
    {i \in DOMAIN s : s[i].name = name /\ s[i].password = password}

\* The required validators of userSchema: name and password must be non-empty.
ValidationFails(doc) == doc.name = "" \/ doc.password = ""

Insert(s, id, doc) == [i \in DOMAIN s \cup {id} |-> IF i = id THEN doc ELSE s[i]]

\* Faulty variant of Remove: the document is found but not deleted (findOne
\* in place of findOneAndDelete).
RemoveNothing(s, id) == s

Remove(s, id) == [i \in DOMAIN s \ {id} |-> s[i]]

\* ------------------------------------------------------------- responses
EvNone ==
    [op |-> "init", out |-> "", msg |-> "", u |-> "", p |-> "", j |-> "",
     tok |-> NoToken, newName |-> "", newJobTitle |-> "", confirm |-> FALSE,
     id |-> 0, name |-> "", jobTitle |-> "", newTok |-> NoToken]

InFlight == BagCardinality(registering) + BagCardinality(modifying)

Names == pool.names
Passwords == pool.passwords
JobTitles == pool.jobTitles

Init ==
    /\ pool \in Pools
    /\ store = << >>
    /\ nextId = 1
    /\ registering = EmptyBag
    /\ modifying = EmptyBag
    /\ issued = {}
    /\ registered = {}
    /\ ev = EvNone


\* --------------------------------------------------------------- inputs
\* Tokens a client can present: the ones it was given, no token, a string
\* that is no JWT, the payload of an issued token signed with another key,
\* and an issued token whose payload was edited while its signature was kept.
ForgedTokens == {EncodeWith(decodeToken(t), otherKey) : t \in issued}

TamperedTokens ==
    {[t EXCEPT !.name = n, !.password = p] : t \in issued, n \in Names, p \in Passwords} \ issued

TokenInputs == issued \cup {AbsentToken, MalformedToken} \cup ForgedTokens \cup TamperedTokens

\* ------------------------------------------------------------- messages
MsgTaken == "Username already exists!"
MsgRegistered == "Registration successful! You can now log in."
MsgAuthOk == "Authentication successful"
MsgAuthBad == "Invalid username or password"
MsgStatusOk == "Token validated successfully"
MsgNotFoundOrInvalid == "User not found or invalid token."
MsgNotFound == "User not found."
MsgInvalid == "Invalid or expired token."
MsgConfirm == "You must confirm user deletion."
MsgDeleted == "User deleted successfully."

\* ------------------------------------------------------------- register
\* Faulty variant of RegisterTaken: the existing document is overwritten (an upsert).
RegisterTakenUpsert(u, p, j) ==
    /\ ev' = [EvNone EXCEPT !.op = "register", !.out = "UsernameTaken",
                            !.msg = MsgTaken, !.u = u, !.p = p, !.j = j]
    /\ store' = [i \in DOMAIN store |->
                   IF store[i].name = u THEN [store[i] EXCEPT !.password = p, !.jobTitle = j]
                   ELSE store[i]]
    /\ UNCHANGED <<pool, nextId, registering, modifying, issued, registered>>

\* Lines 100-102: the name is taken; the failure page is rendered.
RegisterTaken(u, p, j) ==
    /\ ev' = [EvNone EXCEPT !.op = "register", !.out = "UsernameTaken",
                            !.msg = MsgTaken, !.u = u, !.p = p, !.j = j]
    /\ UNCHANGED <<pool, store, nextId, registering, modifying, issued, registered>>

\* Lines 105-106: the handler calls save().  A document the schema rejects
\* makes save() reject before any write, and the handler has no try/catch,
\* so nothing is rendered; otherwise the insert is awaited.
RegisterMiss(u, p, j) ==
    IF ValidationFails([name |-> u, password |-> p, jobTitle |-> j])
    THEN /\ ev' = [EvNone EXCEPT !.op = "register", !.out = "unanswered",
                                 !.u = u, !.p = p, !.j = j]
         /\ UNCHANGED <<pool, store, nextId, registering, modifying, issued, registered>>
    ELSE /\ InFlight < pool.pending
         /\ nextId + BagCardinality(registering) <= MaxId
         /\ registering' = registering (+) SetToBag({[name |-> u, password |-> p, jobTitle |-> j]})
         /\ ev' = [EvNone EXCEPT !.op = "register", !.out = "await",
                                 !.u = u, !.p = p, !.j = j]
         /\ UNCHANGED <<pool, store, nextId, modifying, issued, registered>>

\* Faulty variant of RegisterFind: the lookup also filters on the password.
RegisterFindByCredential(u, p, j) ==
    IF FindByNameAndPassword(store, u, p) # {} THEN RegisterTaken(u, p, j) ELSE RegisterMiss(u, p, j)

\* POST /register up to its first await and the branch on its result.
RegisterFind(u, p, j) ==
    IF FindByName(store, u) # {} THEN RegisterTaken(u, p, j) ELSE RegisterMiss(u, p, j)

\* The insert of newUser.save() and the response.
RegisterSave(r) ==
    /\ BagIn(r, registering)
    /\ registering' = registering (-) SetToBag({r})
    /\ store' = Insert(store, nextId, r)
    /\ nextId' = nextId + 1
    /\ registered' = registered \cup {r.name}
    /\ ev' = [EvNone EXCEPT !.op = "register", !.out = "ok",
                            !.msg = MsgRegistered, !.id = nextId,
                            !.u = r.name, !.p = r.password, !.j = r.jobTitle]
    /\ UNCHANGED <<pool, modifying, issued>>

\* ----------------------------------------------------------------- auth
Auth(u, p) ==
    /\ IF FindByNameAndPassword(store, u, p) = {}
       THEN /\ ev' = [EvNone EXCEPT !.op = "auth", !.out = "InvalidCredentials",
                                    !.msg = MsgAuthBad, !.u = u, !.p = p]
            /\ UNCHANGED issued
       ELSE LET i == FindOne(FindByNameAndPassword(store, u, p)) IN
              LET token == encodeToken([name |-> store[i].name, password |-> store[i].password])
              IN /\ ev' = [EvNone EXCEPT !.op = "auth", !.out = "ok", !.msg = MsgAuthOk,
                                         !.u = u, !.p = p, !.id = i, !.newTok = token]
                 /\ issued' = issued \cup {token}
    /\ UNCHANGED <<pool, store, nextId, registering, modifying, registered>>

\* --------------------------------------------------------------- status
\* Faulty variant of Status: the lookup is findOneAndDelete, as in /delete.
StatusFindAndDelete(token) ==
    /\ IF DecodeThrows(token)
       THEN /\ ev' = [EvNone EXCEPT !.op = "status", !.out = "InvalidToken",
                                    !.msg = MsgInvalid, !.tok = token]
            /\ UNCHANGED store
       ELSE LET payload == decodeToken(token)
                found == FindByNameAndPassword(store, payload.name, payload.password)
            IN IF found = {}
               THEN /\ ev' = [EvNone EXCEPT !.op = "status", !.out = "StaleOrUnknownToken",
                                            !.msg = MsgNotFoundOrInvalid, !.tok = token]
                    /\ UNCHANGED store
               ELSE LET i == FindOne(found) IN
                      /\ store' = Remove(store, i)
                      /\ ev' = [EvNone EXCEPT !.op = "status", !.out = "ok",
                                              !.msg = MsgStatusOk, !.tok = token, !.id = i,
                                              !.name = store[i].name,
                                              !.jobTitle = store[i].jobTitle,
                                              !.newTok = token]
    /\ UNCHANGED <<pool, nextId, registering, modifying, issued, registered>>

\* GET /status: decode, findOne and the rendered page.
Status(token) ==
    /\ IF DecodeThrows(token)
       THEN ev' = [EvNone EXCEPT !.op = "status", !.out = "InvalidToken",
                                 !.msg = MsgInvalid, !.tok = token]
       ELSE LET payload == decodeToken(token)
                found == FindByNameAndPassword(store, payload.name, payload.password)
            IN IF found = {}
               THEN ev' = [EvNone EXCEPT !.op = "status", !.out = "StaleOrUnknownToken",
                                         !.msg = MsgNotFoundOrInvalid, !.tok = token]
               ELSE LET i == FindOne(found) IN
                      ev' = [EvNone EXCEPT !.op = "status", !.out = "ok",
                                           !.msg = MsgStatusOk, !.tok = token, !.id = i,
                                           !.name = store[i].name,
                                           !.jobTitle = store[i].jobTitle,
                                           !.newTok = token]
    /\ UNCHANGED <<pool, store, nextId, registering, modifying, issued, registered>>

\* --------------------------------------------------------------- modify
\* Lines 163-164: a truthy newName / newJobTitle is assigned to the loaded
\* document; mongoose marks a path modified when its value changes.
ApplyOverrides(id, doc, token, newName, newJobTitle) ==
    [tok |-> token, newName |-> newName, newJobTitle |-> newJobTitle, id |-> id,
     name |-> IF newName # "" THEN newName ELSE doc.name,
     password |-> doc.password,
     jobTitle |-> IF newJobTitle # "" THEN newJobTitle ELSE doc.jobTitle,
     dName |-> newName # "" /\ newName # doc.name,
     dJob |-> newJobTitle # "" /\ newJobTitle # doc.jobTitle]

\* Faulty variant of SaveUpdate: the whole loaded document is written back.
SaveReplace(s, m) ==
    [s EXCEPT ![m.id] = [name |-> m.name, password |-> m.password, jobTitle |-> m.jobTitle]]

\* user.save() of a loaded document: the modified paths are $set on the
\* stored document with the same _id.
SaveUpdate(s, m) ==
    [s EXCEPT ![m.id] = [name |-> IF m.dName THEN m.name ELSE @.name,
                         password |-> @.password,
                         jobTitle |-> IF m.dJob THEN m.jobTitle ELSE @.jobTitle]]

\* POST /modify with a token that does not get past lines 155-160: the
\* decode throws, or no document matches the payload.  newName and
\* newJobTitle are not read on these paths.
ModifyReject(token) ==
    /\ IF DecodeThrows(token)
       THEN ev' = [EvNone EXCEPT !.op = "modify", !.out = "InvalidToken",
                                 !.msg = MsgInvalid, !.tok = token]
       ELSE LET payload == decodeToken(token)
            IN /\ FindByNameAndPassword(store, payload.name, payload.password) = {}
               /\ ev' = [EvNone EXCEPT !.op = "modify", !.out = "StaleOrUnknownToken",
                                       !.msg = MsgNotFound, !.tok = token]
    /\ UNCHANGED <<pool, store, nextId, registering, modifying, issued, registered>>

\* POST /modify with a token that decodes and matches a document, up to the
\* await of user.save().
ModifyFind(token, newName, newJobTitle) ==
    /\ ~DecodeThrows(token)
    /\ LET payload == decodeToken(token)
           found == FindByNameAndPassword(store, payload.name, payload.password)
       IN /\ found # {}
          /\ InFlight < pool.pending
          /\ LET i == FindOne(found) IN
               /\ modifying' = modifying (+)
                     SetToBag({ApplyOverrides(i, store[i], token, newName, newJobTitle)})
               /\ ev' = [EvNone EXCEPT !.op = "modify", !.out = "await",
                                       !.tok = token, !.id = i,
                                       !.newName = newName,
                                       !.newJobTitle = newJobTitle]
    /\ UNCHANGED <<pool, store, nextId, registering, issued, registered>>

\* Faulty variant of ModifySave: the save is an upsert, so a document deleted
\* since the find is written back and the request reports success.
ModifySaveUpsert(m) ==
    /\ BagIn(m, modifying)
    /\ modifying' = modifying (-) SetToBag({m})
    /\ LET newToken == encodeToken([name |-> m.name, password |-> m.password])
       IN /\ store' = IF m.id \in DOMAIN store
                      THEN SaveUpdate(store, m)
                      ELSE Insert(store, m.id, [name |-> m.name, password |-> m.password,
                                                jobTitle |-> m.jobTitle])
          /\ issued' = issued \cup {newToken}
          /\ ev' = [EvNone EXCEPT !.op = "modify", !.out = "ok", !.tok = m.tok,
                                  !.id = m.id, !.newName = m.newName,
                                  !.newJobTitle = m.newJobTitle,
                                  !.newTok = newToken]
    /\ UNCHANGED <<pool, nextId, registering, registered>>

\* user.save() and the redirect.  save() rejects with DocumentNotFoundError
\* when the document is gone; the catch renders the failure page.
ModifySave(m) ==
    /\ BagIn(m, modifying)
    /\ modifying' = modifying (-) SetToBag({m})
    /\ IF m.id \notin DOMAIN store
       THEN /\ ev' = [EvNone EXCEPT !.op = "modify", !.out = "InvalidToken",
                                    !.msg = MsgInvalid, !.tok = m.tok, !.id = m.id,
                                    !.newName = m.newName, !.newJobTitle = m.newJobTitle]
            /\ UNCHANGED <<store, issued>>
       ELSE LET newToken == encodeToken([name |-> m.name, password |-> m.password])
            IN /\ store' = SaveUpdate(store, m)
               /\ issued' = issued \cup {newToken}
               /\ ev' = [EvNone EXCEPT !.op = "modify", !.out = "ok", !.tok = m.tok,
                                       !.id = m.id, !.newName = m.newName,
                                       !.newJobTitle = m.newJobTitle,
                                       !.newTok = newToken]
    /\ UNCHANGED <<pool, nextId, registering, registered>>

\* --------------------------------------------------------------- delete
\* Faulty variant of Delete: the token is decoded before the confirm flag is tested.
DeleteDecodeFirst(token, confirm) ==
    /\ IF DecodeThrows(token)
       THEN /\ ev' = [EvNone EXCEPT !.op = "delete", !.out = "InvalidToken",
                                    !.msg = MsgInvalid, !.tok = token, !.confirm = confirm]
            /\ UNCHANGED store
       ELSE IF ~confirm
       THEN /\ ev' = [EvNone EXCEPT !.op = "delete", !.out = "ConfirmationRequired",
                                    !.msg = MsgConfirm, !.tok = token, !.confirm = confirm]
            /\ UNCHANGED store
       ELSE IF FindByNameAndPassword(store, token.name, token.password) = {}
       THEN /\ ev' = [EvNone EXCEPT !.op = "delete", !.out = "StaleOrUnknownToken",
                                    !.msg = MsgNotFoundOrInvalid, !.tok = token,
                                    !.confirm = confirm]
            /\ UNCHANGED store
       ELSE LET i == FindOne(FindByNameAndPassword(store, token.name, token.password)) IN
              /\ store' = Remove(store, i)
              /\ ev' = [EvNone EXCEPT !.op = "delete", !.out = "ok",
                                      !.msg = MsgDeleted, !.tok = token,
                                      !.confirm = confirm, !.id = i]
    /\ UNCHANGED <<pool, nextId, registering, modifying, issued, registered>>

\* POST /delete: the confirm test, the decode, findOneAndDelete and the response.
Delete(token, confirm) ==
    /\ IF ~confirm
       THEN /\ ev' = [EvNone EXCEPT !.op = "delete", !.out = "ConfirmationRequired",
                                    !.msg = MsgConfirm, !.tok = token, !.confirm = confirm]
            /\ UNCHANGED store
       ELSE IF DecodeThrows(token)
       THEN /\ ev' = [EvNone EXCEPT !.op = "delete", !.out = "InvalidToken",
                                    !.msg = MsgInvalid, !.tok = token, !.confirm = confirm]
            /\ UNCHANGED store
       ELSE LET payload == decodeToken(token)
                found == FindByNameAndPassword(store, payload.name, payload.password)
            IN IF found = {}
               THEN /\ ev' = [EvNone EXCEPT !.op = "delete", !.out = "StaleOrUnknownToken",
                                            !.msg = MsgNotFoundOrInvalid, !.tok = token,
                                            !.confirm = confirm]
                    /\ UNCHANGED store
               ELSE LET i == FindOne(found) IN
                      /\ store' = Remove(store, i)
                      /\ ev' = [EvNone EXCEPT !.op = "delete", !.out = "ok",
                                              !.msg = MsgDeleted, !.tok = token,
                                              !.confirm = confirm, !.id = i]
    /\ UNCHANGED <<pool, nextId, registering, modifying, issued, registered>>

\* ----------------------------------------------------------------- next
Next ==
    \/ \E u \in Names \cup {""}, p \in Passwords \cup {""}, j \in JobTitles \cup {""} :
         RegisterFind(u, p, j)
    \/ \E r \in BagToSet(registering) : RegisterSave(r)
    \/ \E u \in Names \cup {""}, p \in Passwords \cup {""} : Auth(u, p)
    \/ \E t \in TokenInputs : Status(t)
    \/ \E t \in TokenInputs : ModifyReject(t)
    \/ \E t \in TokenInputs, n \in Names \cup {""}, j \in JobTitles \cup {""} :
         ModifyFind(t, n, j)
    \/ \E m \in BagToSet(modifying) : ModifySave(m)
    \/ \E t \in TokenInputs, c \in BOOLEAN : Delete(t, c)

Spec == Init /\ [][Next]_vars


\* ================================================================ claims
\* The token is a JWT whose signature is the HMAC of its payload under the
\* service secret.
Verifies(token) ==
    /\ token.form = "jwt"
    /\ token.sig = <<secret, token.name, token.password>>

\* The live documents whose (name, password) equal the token's payload.
Matches(s, token) ==
    {i \in DOMAIN s : s[i].name = token.name /\ s[i].password = token.password}

\* The first of a set of documents in natural (insertion) order, the one a
\* lookup returns.
First(found) == CHOOSE i \in found : \A k \in found : i <= k

\* The step just taken ran the token check of status, modify or confirmed
\* delete: decodeToken and the credential-qualified lookup.  (modify's second
\* step, the save, takes a request out of `modifying` and is not a lookup.)
TokenLookupStep ==
    /\ ev'.op \in {"status", "modify", "delete"}
    /\ BagCardinality(modifying') >= BagCardinality(modifying)
    /\ ev'.op = "delete" => ev'.confirm

\* The step just taken is the second step of a modify (user.save() and the
\* response).
ModifySaveStep ==
    /\ ev'.op = "modify"
    /\ BagCardinality(modifying') < BagCardinality(modifying)

\* C1: status, modify and confirmed delete get past their token check exactly
\* when the token's signature verifies under the secret and, at the lookup, a
\* live document has exactly the token's (name, password); otherwise the
\* failure page is rendered.  A modify reports success only for a request
\* that got past that check.
C1_TokenGate ==
    [][/\ TokenLookupStep =>
            /\ ev'.out \in {"ok", "await"} <=>
                   (Verifies(ev'.tok) /\ Matches(store, ev'.tok) # {})
            /\ ev'.out \notin {"ok", "await"} =>
                   /\ ev'.out \in {"InvalidToken", "StaleOrUnknownToken"}
                   /\ ev'.newTok = NoToken
                   /\ store' = store
            /\ ev'.out \in {"ok", "await"} =>
                   /\ ev'.id \in Matches(store, ev'.tok)
                   /\ ev'.out = "await" <=> ev'.op = "modify"
       /\ ModifySaveStep /\ ev'.out = "ok" =>
            \E m \in BagToSet(modifying) :
                /\ m.tok = ev'.tok
                /\ Verifies(m.tok)
                /\ m.password = m.tok.password]_vars

\* C1 witness: a delete succeeded with a token that decodes and whose payload
\* matched the record it removed.
C1_Witness ==
    /\ ev.op = "delete"
    /\ ev.out = "ok"
    /\ Verifies(ev.tok)
    /\ ev.id \notin DOMAIN store

\* C2: authenticate(u, p) succeeds exactly when a live document with name u
\* and password p exists at the lookup; the token then encodes that
\* document's (name, password); otherwise the outcome is InvalidCredentials
\* and no token is returned.
C2_AuthCorrect ==
    [][ev'.op = "auth" =>
          /\ ev'.out = "ok" <=>
                 (\E i \in DOMAIN store : store[i].name = ev'.u /\ store[i].password = ev'.p)
          /\ ev'.out = "ok" =>
                 /\ ev'.id \in DOMAIN store
                 /\ store[ev'.id].name = ev'.u
                 /\ store[ev'.id].password = ev'.p
                 /\ Verifies(ev'.newTok)
                 /\ decodeToken(ev'.newTok) = [name |-> ev'.u, password |-> ev'.p]
          /\ ev'.out # "ok" =>
                 /\ ev'.out = "InvalidCredentials"
                 /\ ev'.newTok = NoToken
                 /\ issued' = issued]_vars

\* C2 witness: an authentication succeeded and returned a token.
C2_Witness ==
    /\ ev.op = "auth"
    /\ ev.out = "ok"
    /\ ev.newTok \in issued

\* C3: no two live documents have the same name.
C3_UniqueNames ==
    \A i \in DOMAIN store : \A k \in DOMAIN store :
        i # k => store[i].name # store[k].name

\* The step just taken is the first step of a register request: the lookup
\* by name and the branch on its result.
RegisterFindStep ==
    /\ ev'.op = "register"
    /\ ev'.out \in {"UsernameTaken", "await", "unanswered"}

\* C4 as stated: once register(u, p) has succeeded, every register(u, p')
\* that starts later fails with UsernameTaken.
C4_AlwaysTakenAfterRegister ==
    [][RegisterFindStep /\ ev'.u \in registered => ev'.out = "UsernameTaken"]_vars

\* C4 amended: once register(u, p) has succeeded, every register(u, p')
\* that starts later while a live document named u exists fails with
\* UsernameTaken, whatever its password and job title, and the store is
\* left as it was.
C4_TakenWhileNameLive ==
    [][RegisterFindStep /\ ev'.u \in registered /\ (\E i \in DOMAIN store : store[i].name = ev'.u)
          => /\ ev'.out = "UsernameTaken"
             /\ store' = store
             /\ registering' = registering]_vars

\* C4 witness: a register for an already registered, still live name was
\* refused although its password differs from the stored one.
C4_Witness ==
    /\ ev.op = "register"
    /\ ev.out = "UsernameTaken"
    /\ ev.u \in registered
    /\ \E i \in DOMAIN store : store[i].name = ev.u /\ store[i].password # ev.p

\* C5: a register that fails with UsernameTaken leaves the collection as it
\* was (no document added, the existing one keeps its password and job
\* title), suspends nothing and issues no token.
C5_TakenLeavesStore ==
    [][ev'.op = "register" /\ ev'.out = "UsernameTaken" =>
          /\ store' = store
          /\ nextId' = nextId
          /\ registering' = registering
          /\ issued' = issued
          /\ ev'.newTok = NoToken]_vars

\* C5 witness: a register was refused with UsernameTaken while the live
\* document of that name holds other fields than the request's.
C5_Witness ==
    /\ ev.op = "register"
    /\ ev.out = "UsernameTaken"
    /\ \E i \in DOMAIN store :
          /\ store[i].name = ev.u
          /\ <<store[i].password, store[i].jobTitle>> # <<ev.p, ev.j>>

\* C6: a delete whose confirm flag is falsy returns ConfirmationRequired and
\* changes nothing, whatever the token: absent, malformed, wrongly signed,
\* stale or valid.
C6_ConfirmGate ==
    [][ev'.op = "delete" /\ ~ev'.confirm =>
          /\ ev'.out = "ConfirmationRequired"
          /\ ev'.msg = MsgConfirm
          /\ store' = store
          /\ issued' = issued
          /\ ev'.newTok = NoToken]_vars

\* C6 witness: an unconfirmed delete carrying a token that does not decode
\* was answered with ConfirmationRequired.
C6_Witness ==
    /\ ev.op = "delete"
    /\ ~ev.confirm
    /\ ev.out = "ConfirmationRequired"
    /\ ~Verifies(ev.tok)

\* C6 witness for the other half of the gate: an unconfirmed delete carrying
\* a token that is valid for a live document removed nothing.
C6_WitnessValidToken ==
    /\ ev.op = "delete"
    /\ ~ev.confirm
    /\ ev.out = "ConfirmationRequired"
    /\ Verifies(ev.tok)
    /\ Matches(store, ev.tok) # {}

\* C7: right after modify(T, newName = n) has succeeded with n different
\* from the name in T, status(T) fails with StaleOrUnknownToken (no live
\* document matches T), and status with the token modify returned succeeds
\* and reports name n.
C7_RenameRetiresOldToken ==
    (/\ ev.op = "modify"
     /\ ev.out = "ok"
     /\ ev.newName # ""
     /\ ev.newName # ev.tok.name)
    => /\ Matches(store, ev.tok) = {}
       /\ Verifies(ev.newTok)
       /\ Matches(store, ev.newTok) # {}
       /\ \A i \in Matches(store, ev.newTok) : store[i].name = ev.newName

\* C8: right after delete(T, true) has succeeded for a token T issued for
\* (u, p), status(T) fails with StaleOrUnknownToken and authenticate(u, p)
\* fails with InvalidCredentials: no live document has (u, p).
C8_DeleteRetiresToken ==
    (ev.op = "delete" /\ ev.out = "ok")
    => /\ Matches(store, ev.tok) = {}
       /\ ~\E i \in DOMAIN store :
              store[i].name = ev.tok.name /\ store[i].password = ev.tok.password

\* C9: register issues no token, and right after register(u, p, f) has
\* succeeded authenticate(u, p) returns a token T for which status(T)
\* succeeds and reports name u and job title f.
C9_RegisterThenStatus ==
    (ev.op = "register" /\ ev.out = "ok")
    => /\ ev.newTok = NoToken
       /\ \E i \in DOMAIN store : store[i].name = ev.u /\ store[i].password = ev.p
       /\ LET T == encodeToken([name |-> ev.u, password |-> ev.p])
          IN /\ Verifies(T)
             /\ Matches(store, T) # {}
             /\ store[First(Matches(store, T))].name = ev.u
             /\ store[First(Matches(store, T))].jobTitle = ev.j

\* C10: a successful modify changes the resolved document only: no document
\* is added or removed, every other document is unchanged, the password is
\* unchanged, a falsy newName leaves the name unchanged and a falsy
\* newJobTitle leaves the job title unchanged.
C10_ModifyFrame ==
    [][ModifySaveStep /\ ev'.out = "ok" =>
          /\ DOMAIN store' = DOMAIN store
          /\ ev'.id \in DOMAIN store
          /\ \A k \in DOMAIN store : k # ev'.id => store'[k] = store[k]
          /\ store'[ev'.id].password = store[ev'.id].password
          /\ ev'.newName = "" => store'[ev'.id].name = store[ev'.id].name
          /\ ev'.newJobTitle = "" => store'[ev'.id].jobTitle = store[ev'.id].jobTitle
          /\ nextId' = nextId]_vars

\* C10 witness: a modify renamed one document while another one was live,
\* and its job title was left out of the request.
C10_Witness ==
    /\ ev.op = "modify"
    /\ ev.out = "ok"
    /\ ev.newName # ""
    /\ ev.newName # ev.tok.name
    /\ ev.newJobTitle = ""
    /\ ev.id \in DOMAIN store
    /\ store[ev.id].name = ev.newName
    /\ store[ev.id].jobTitle # ""
    /\ \E k \in DOMAIN store : k # ev.id

\* C11: status never changes the collection (nor suspends or issues
\* anything); on success it echoes the supplied token and reports the name
\* and job title of the document the lookup returns; and a status that
\* directly follows a successful status with the same token, nothing having
\* happened in between, succeeds with the same name and job title.
C11_StatusReadOnly ==
    [][ev'.op = "status" =>
          /\ store' = store
          /\ nextId' = nextId
          /\ registering' = registering
          /\ modifying' = modifying
          /\ issued' = issued
          /\ ev'.out = "ok" =>
                 /\ ev'.newTok = ev'.tok
                 /\ ev'.id \in Matches(store, ev'.tok)
                 /\ ev'.id = First(Matches(store, ev'.tok))
                 /\ ev'.name = store[ev'.id].name
                 /\ ev'.jobTitle = store[ev'.id].jobTitle
          /\ (ev.op = "status" /\ ev.out = "ok" /\ ev'.tok = ev.tok) =>
                 /\ ev'.out = "ok"
                 /\ ev'.name = ev.name
                 /\ ev'.jobTitle = ev.jobTitle]_vars

\* C11 witness: a status succeeded and reported a job title while two
\* documents were live.
C11_Witness ==
    /\ ev.op = "status"
    /\ ev.out = "ok"
    /\ ev.newTok = ev.tok
    /\ ev.jobTitle # ""
    /\ Cardinality(DOMAIN store) = 2

\* C12: for status, modify and confirmed delete, the failure rendered for a
\* token that matches no live document is the failure rendered for a token
\* that does not decode: a request answered StaleOrUnknownToken right after a
\* request of the same operation was answered InvalidToken carries the same
\* message.
C12_SameFailureMessage ==
    [][(/\ ev.op \in {"status", "modify", "delete"}
        /\ ev'.op = ev.op
        /\ ev.out = "InvalidToken"
        /\ ~Verifies(ev.tok)
        /\ ev'.out = "StaleOrUnknownToken")
       => ev'.msg = ev.msg]_vars

\* C13: no request is left unanswered: every step that ends a request
\* renders a page or redirects.
C13_EveryRequestAnswered == ev.out # "unanswered"

C15_OneRegisterWins ==
    (ev.op = "register" /\ ev.out = "ok")
    => \A i \in DOMAIN store : store[i].name = ev.u => i = ev.id

\* C16: a confirmed delete with a token that verifies removes exactly the
\* first matching document when there is one and reports success, and fails
\* with StaleOrUnknownToken, removing nothing, when there is none: lookup and
\* removal are one step.  So of two such deletes in a row against a single
\* matching document the first succeeds and the second fails.
C16_DeleteOnce ==
    [][(ev'.op = "delete" /\ ev'.confirm /\ Verifies(ev'.tok)) =>
          /\ Matches(store, ev'.tok) # {} =>
                 /\ ev'.out = "ok"
                 /\ ev'.id = First(Matches(store, ev'.tok))
                 /\ DOMAIN store' = DOMAIN store \ {ev'.id}
                 /\ \A i \in DOMAIN store' : store'[i] = store[i]
                 /\ Matches(store', ev'.tok) = Matches(store, ev'.tok) \ {ev'.id}
          /\ Matches(store, ev'.tok) = {} =>
                 /\ ev'.out = "StaleOrUnknownToken"
                 /\ store' = store
          /\ (/\ ev.op = "delete"
              /\ ev.out = "ok"
              /\ ev.tok = ev'.tok
              /\ Cardinality(Matches(store, ev.tok)) = 0) =>
                 ev'.out = "StaleOrUnknownToken"]_vars

\* C16 witness: a confirmed delete with a token the service issued found no
\* matching document any more and failed, all documents ever inserted being
\* gone.
C16_Witness ==
    /\ ev.op = "delete"
    /\ ev.confirm
    /\ ev.out = "StaleOrUnknownToken"
    /\ ev.tok \in issued
    /\ nextId > 1
    /\ DOMAIN store = {}

\* C17: the save step of a modify whose document was deleted since its find
\* step fails: it adds no document, changes none, and issues no token.  No
\* step of a modify ever adds a document.
C17_NoResurrection ==
    [][ev'.op = "modify" =>
          /\ DOMAIN store' \subseteq DOMAIN store
          /\ nextId' = nextId
          /\ (ModifySaveStep /\ ev'.id \notin DOMAIN store) =>
                 /\ ev'.out \notin {"ok", "await"}
                 /\ ev'.newTok = NoToken
                 /\ store' = store
                 /\ issued' = issued]_vars

\* C17 witness: a modify found its document, the document was deleted, and
\* the save step then failed.
C17_Witness ==
    /\ ev.op = "modify"
    /\ ev.out = "InvalidToken"
    /\ Verifies(ev.tok)
    /\ ev.id # 0
    /\ ev.id \notin DOMAIN store

\* C18: when modify reports success, the token it returns carries the name
\* and password of the document as it is then stored.
C18_ReturnedTokenValid ==
    (ev.op = "modify" /\ ev.out = "ok")
    => /\ ev.id \in DOMAIN store
       /\ store[ev.id].name = ev.newTok.name
       /\ store[ev.id].password = ev.newTok.password

\* C19 as stated: a token acts only on the document it was issued for.  A
\* document that register has just inserted has had no token issued for it
\* (tokens come from authenticate and modify, and _ids are never reused), so
\* no status that directly follows may succeed on that document.
C19_OnlyIssuedRecord ==
    [][(/\ ev.op = "register"
        /\ ev.out = "ok"
        /\ ev'.op = "status"
        /\ ev'.out = "ok")
       => ev'.id # ev.id]_vars

\* C19 amended: a token acts only on a live document that carries the
\* token's (name, password) at the lookup.  The document status reports,
\* delete removes and modify loads is the first such document; the save of a
\* modify writes only the document it loaded, whose password is still the
\* token's; every other document is left as it was.
C19_ActsOnMatchingRecord ==
    [][/\ (TokenLookupStep /\ ev'.out \in {"ok", "await"}) =>
            /\ Verifies(ev'.tok)
            /\ ev'.id \in Matches(store, ev'.tok)
            /\ ev'.id = First(Matches(store, ev'.tok))
            /\ store[ev'.id].name = ev'.tok.name
            /\ store[ev'.id].password = ev'.tok.password
            /\ \A k \in DOMAIN store \ {ev'.id} : k \in DOMAIN store' /\ store'[k] = store[k]
       /\ (ModifySaveStep /\ ev'.out = "ok") =>
            /\ Verifies(ev'.tok)
            /\ ev'.id \in DOMAIN store
            /\ store[ev'.id].password = ev'.tok.password
            /\ \A k \in DOMAIN store \ {ev'.id} : k \in DOMAIN store' /\ store'[k] = store[k]]_vars

\* C19 witness: a token operation succeeded on the second document while the
\* first, which has the same password and another name, stayed as it was.
C19_Witness ==
    /\ ev.op \in {"status", "delete"}
    /\ ev.out = "ok"
    /\ ev.id = 2
    /\ 1 \in DOMAIN store
    /\ store[1].password = ev.tok.password
    /\ store[1].name # ev.tok.name

=============================================================================
